---- MODULE Spec2Model ----
(***************************************************************************)
(* find_duplicates.py: a two-pass duplicate finder.  Pass one walks the    *)
(* directory tree and groups regular files by size (hashes_by_size); pass  *)
(* two hashes every path of a size bucket holding more than one path and   *)
(* groups paths by digest (duplicates); the groups with more than one path *)
(* are returned (actual_duplicates).  main() checks the root directory     *)
(* before it calls find_duplicates.                                        *)
(***************************************************************************)
EXTENDS Integers, Sequences, FiniteSets

VARIABLES
    rootIsDir,       \* os.path.isdir(directory)
    tree,            \* path -> what the file system holds at that path
    md5,             \* content -> digest: the digest function of hashlib.md5
    listing,         \* the file paths in the order os.walk yields them
    pc,              \* "main" | "walk" | "hash" | "done" | "exit"
    cursor,          \* position of the first pass in the listing
    hashes_by_size,  \* ordered dict size -> list of paths
    b,               \* second pass: index of the current size bucket
    j,               \* second pass: index of the current path in the bucket
    duplicates,      \* ordered dict digest -> list of paths
    result,          \* actual_duplicates, once returned
    hash_calls,      \* history: every call of hash_file, with what it gave
    warnings,        \* the "Warning: Could not ..." lines printed
    run,             \* number of the current call of find_duplicates
    previous         \* what the previous call of find_duplicates returned

vars == <<rootIsDir, tree, md5, listing, pc, cursor, hashes_by_size, b, j,
          duplicates, result, hash_calls, warnings, run, previous>>

(* ------------------------------ bounds -------------------------------- *)

\* Most directory entries of a tree (specification Spec).
MaxFiles == 4

\* Most directory entries of a tree that is scanned twice (SpecOrder).
OrderFiles == 3

(* --------------------------- the file system -------------------------- *)

\* File contents: the empty file and the one-byte files, in a fixed order.
ContentSeq == <<(<<>>), <<"x">>, <<"y">>>>

Contents == {ContentSeq[k] : k \in DOMAIN ContentSeq}

\* Digest values, in a fixed order.
DigestSeq == <<"d1", "d2", "d3">>

Digests == {DigestSeq[k] : k \in DOMAIN DigestSeq}

DigestIndex(d) == CHOOSE k \in DOMAIN DigestSeq : DigestSeq[k] = d

\* A digest function up to the names of the digests: the digest of the k-th
\* content is one already used or the first unused one.  Every pattern of
\* collisions among the contents is one of these functions.
Canonical(f) ==
    \A k \in DOMAIN ContentSeq :
        \/ \E i \in 1..(k - 1) : f[ContentSeq[i]] = f[ContentSeq[k]]
        \/ DigestIndex(f[ContentSeq[k]]) =
               1 + Cardinality({f[ContentSeq[i]] : i \in 1..(k - 1)})

DigestFunctions == {f \in [Contents -> Digests] : Canonical(f)}

\* What a directory entry can be.  isfile: os.path.isfile answers True;
\* stat: os.path.getsize succeeds; read: open/read succeed.  Fields the
\* program never looks at for such an entry are fixed (the content of an
\* entry that is never opened is one content of its size).
EntryTable ==
    << [isfile |-> FALSE, stat |-> "err", read |-> "err", content |-> <<>>],
       [isfile |-> TRUE,  stat |-> "err", read |-> "err", content |-> <<>>],
       [isfile |-> TRUE,  stat |-> "ok",  read |-> "err", content |-> <<>>],
       [isfile |-> TRUE,  stat |-> "ok",  read |-> "err", content |-> <<"x">>],
       [isfile |-> TRUE,  stat |-> "ok",  read |-> "ok",  content |-> <<>>],
       [isfile |-> TRUE,  stat |-> "ok",  read |-> "ok",  content |-> <<"x">>],
       [isfile |-> TRUE,  stat |-> "ok",  read |-> "ok",  content |-> <<"y">>] >>

Entries == {EntryTable[k] : k \in DOMAIN EntryTable}

Paths == DOMAIN tree

Identity(n) == [i \in 1..n |-> i]

Orders(n) ==
    {s \in [1..n -> 1..n] : \A i, k \in 1..n : i # k => s[i] # s[k]}

(* ------------------------- library functions -------------------------- *)

isdir == rootIsDir

isfile(filepath) == tree[filepath].isfile

getsize_raises(filepath) == tree[filepath].stat = "err"

getsize(filepath) == Len(tree[filepath].content)

open_raises(filepath) == tree[filepath].read = "err"

\* os.walk(directory), flattened to the file paths it yields: nothing when
\* the root cannot be listed (os.walk swallows the error of scandir).
walk == IF isdir THEN listing ELSE <<>>

\* d[key].append(value) on a defaultdict(list); a dict keeps its keys in
\* the order of their first insertion.
DictAppend(d, key, value) ==
    IF \E i \in DOMAIN d : d[i].key = key
    THEN [i \in DOMAIN d |->
             IF d[i].key = key
             THEN [key |-> key, paths |-> Append(d[i].paths, value)]
             ELSE d[i]]
    ELSE Append(d, [key |-> key, paths |-> <<value>>])

(* ----------------------------- hash_file ------------------------------ *)

block_size == 65536

Min(x, y) == IF x < y THEN x ELSE y

\* f.read(block_size) at offset pos (1-based) of the file's bytes.
read(data, pos) == SubSeq(data, pos, Min(pos + block_size - 1, Len(data)))

\* The read loop: every block read is fed to the hasher, until a read
\* returns nothing.  The hasher's state is the bytes it was fed.
RECURSIVE read_loop(_, _, _)
read_loop(data, pos, hasher) ==
    LET buf == read(data, pos)
    IN  IF Len(buf) > 0
        THEN read_loop(data, pos + Len(buf), hasher \o buf)
        ELSE hasher

hash_file(filepath) == md5[read_loop(tree[filepath].content, 1, <<>>)]

(* --------------------------- find_duplicates -------------------------- *)

\* First pass, one entry of the listing.
SizeGroupStep(hbs, filepath) ==
    IF isfile(filepath) /\ ~getsize_raises(filepath)
    THEN DictAppend(hbs, getsize(filepath), filepath)
    ELSE hbs

SizeWarning(filepath) ==
    IF isfile(filepath) /\ getsize_raises(filepath)
    THEN <<[what |-> "access", path |-> filepath]>>
    ELSE <<>>

\* Mutant: the test reads "more than two".
ShouldHashOverTwo(file_paths) == Len(file_paths) > 2

\* Mutant: the test reads "at least one".
ShouldHashAny(file_paths) == Len(file_paths) >= 1

\* len(file_paths) > 1
ShouldHash(file_paths) == Len(file_paths) > 1

RECURSIVE ConcatPaths(_, _)
ConcatPaths(hbs, k) ==
    IF k > Len(hbs) THEN <<>> ELSE hbs[k].paths \o ConcatPaths(hbs, k + 1)

\* Mutant: the inner loop runs over the paths of every bucket.
BucketPathsAll(hbs, k) == ConcatPaths(hbs, 1)

\* The paths the second pass takes from bucket k.
BucketPaths(hbs, k) == hbs[k].paths

\* The position (bucket, path) after the path at (k, i) of the second pass.
Advance(file_paths, k, i) ==
    IF i < Len(file_paths) THEN <<k, i + 1>> ELSE <<k + 1, 1>>

\* Mutant: break instead of continue.
OnHashErrorBreak(file_paths, k, i) == <<k + 1, 1>>

\* except OSError: print the warning; continue
OnHashError(file_paths, k, i) == Advance(file_paths, k, i)

\* Mutant: the path is filed under the digest of a hasher that was fed
\* nothing.
HashStepFreshHasher(dups, filepath) ==
    IF open_raises(filepath)
    THEN dups
    ELSE DictAppend(dups, md5[<<>>], filepath)

\* Second pass, one path of a bucket.
HashStep(dups, filepath) ==
    IF open_raises(filepath)
    THEN dups
    ELSE DictAppend(dups, hash_file(filepath), filepath)

HashCall(filepath) ==
    [path |-> filepath,
     digest |-> IF open_raises(filepath) THEN "OSError" ELSE hash_file(filepath)]

HashWarning(filepath) ==
    IF open_raises(filepath)
    THEN <<[what |-> "hash", path |-> filepath]>>
    ELSE <<>>

\* Mutant: the filter reads len(paths) > 0.
ActualDuplicatesKeepSingles(dups) == SelectSeq(dups, LAMBDA g : Len(g.paths) > 0)

\* Mutant: each group lists only its extra copies, paths[1:].
ActualDuplicatesExtraCopies(dups) ==
    SelectSeq([i \in DOMAIN dups |->
                  [key |-> dups[i].key, paths |-> Tail(dups[i].paths)]],
              LAMBDA g : Len(g.paths) > 0)

\* {hash_val: paths for hash_val, paths in duplicates.items() if len(paths) > 1}
ActualDuplicates(dups) == SelectSeq(dups, LAMBDA g : Len(g.paths) > 1)

\* Mutant: main calls find_duplicates whatever the root is.
RootNeverRejected == FALSE

\* main: if not os.path.isdir(target_directory): print error; return
RootRejected == ~isdir

\* main: total_duplicates_found, the sum over the groups of len(paths) - 1
RECURSIVE total_duplicates_found(_)
total_duplicates_found(groups) ==
    IF groups = <<>>
    THEN 0
    ELSE (Len(Head(groups).paths) - 1) + total_duplicates_found(Tail(groups))

\* find_duplicates as a function of the listing: the two passes and the
\* final filter, by the same steps as the actions below.
RECURSIVE FirstPass(_, _)
FirstPass(hbs, files) ==
    IF files = <<>>
    THEN hbs
    ELSE FirstPass(SizeGroupStep(hbs, Head(files)), Tail(files))

RECURSIVE SecondPass(_, _, _, _)
SecondPass(dups, hbs, k, i) ==
    IF k > Len(hbs)
    THEN dups
    ELSE IF ~ShouldHash(hbs[k].paths)
    THEN SecondPass(dups, hbs, k + 1, 1)
    ELSE LET file_paths == BucketPaths(hbs, k)
             filepath == file_paths[i]
             pos == IF open_raises(filepath)
                    THEN OnHashError(file_paths, k, i)
                    ELSE Advance(file_paths, k, i)
         IN  SecondPass(HashStep(dups, filepath), hbs, pos[1], pos[2])

find_duplicates(files) ==
    ActualDuplicates(SecondPass(<<>>, FirstPass(<<>>, files), 1, 1))

(* ------------------------------- actions ------------------------------ *)

Fresh ==
    /\ cursor = 1
    /\ hashes_by_size = <<>>
    /\ b = 1
    /\ j = 1
    /\ duplicates = <<>>
    /\ result = <<>>
    /\ hash_calls = <<>>
    /\ warnings = <<>>
    /\ run = 1
    /\ previous = <<>>

\* A tree of n entries listed in the order of their names; main() or a
\* direct call of find_duplicates.  Under a root that is no directory there
\* is no tree.
Init ==
    /\ rootIsDir \in BOOLEAN
    /\ \E n \in 0..MaxFiles :
          /\ tree \in [1..n -> Entries]
          /\ listing = Identity(n)
          /\ ~rootIsDir => n = 0
    /\ md5 \in DigestFunctions
    /\ pc \in {"main", "walk"}
    /\ Fresh

\* main(), lines 64-70: a root that is no directory is reported and main
\* returns; otherwise find_duplicates is called.
MainCheck ==
    /\ pc = "main"
    /\ pc' = IF RootRejected THEN "exit" ELSE "walk"
    /\ UNCHANGED <<rootIsDir, tree, md5, listing, cursor, hashes_by_size, b, j,
                   duplicates, result, hash_calls, warnings, run, previous>>

\* One iteration of the first pass (lines 31-40).
WalkEntry ==
    /\ pc = "walk"
    /\ cursor <= Len(walk)
    /\ hashes_by_size' = SizeGroupStep(hashes_by_size, walk[cursor])
    /\ warnings' = warnings \o SizeWarning(walk[cursor])
    /\ cursor' = cursor + 1
    /\ UNCHANGED <<rootIsDir, tree, md5, listing, pc, b, j, duplicates, result,
                   hash_calls, run, previous>>

\* os.walk is exhausted: the second pass begins (line 43).
EndWalk ==
    /\ pc = "walk"
    /\ cursor > Len(walk)
    /\ pc' = "hash"
    /\ UNCHANGED <<rootIsDir, tree, md5, listing, cursor, hashes_by_size, b, j,
                   duplicates, result, hash_calls, warnings, run, previous>>

\* A bucket that fails the test of line 44 is passed over.
SkipBucket ==
    /\ pc = "hash"
    /\ b <= Len(hashes_by_size)
    /\ ~ShouldHash(hashes_by_size[b].paths)
    /\ b' = b + 1
    /\ UNCHANGED <<rootIsDir, tree, md5, listing, pc, cursor, hashes_by_size, j,
                   duplicates, result, hash_calls, warnings, run, previous>>

\* One iteration of the inner loop of the second pass (lines 45-51).
HashPath ==
    /\ pc = "hash"
    /\ b <= Len(hashes_by_size)
    /\ ShouldHash(hashes_by_size[b].paths)
    /\ LET file_paths == BucketPaths(hashes_by_size, b)
           filepath == file_paths[j]
       IN  /\ duplicates' = HashStep(duplicates, filepath)
           /\ hash_calls' = Append(hash_calls, HashCall(filepath))
           /\ warnings' = warnings \o HashWarning(filepath)
           /\ LET pos == IF open_raises(filepath)
                         THEN OnHashError(file_paths, b, j)
                         ELSE Advance(file_paths, b, j)
              IN  b' = pos[1] /\ j' = pos[2]
    /\ UNCHANGED <<rootIsDir, tree, md5, listing, pc, cursor, hashes_by_size,
                   result, run, previous>>

\* Lines 54-56: the groups of more than one path are returned.
Return ==
    /\ pc = "hash"
    /\ b > Len(hashes_by_size)
    /\ result' = ActualDuplicates(duplicates)
    /\ pc' = "done"
    /\ UNCHANGED <<rootIsDir, tree, md5, listing, cursor, hashes_by_size, b, j,
                   duplicates, hash_calls, warnings, run, previous>>

Next ==
    \/ MainCheck
    \/ WalkEntry
    \/ EndWalk
    \/ SkipBucket
    \/ HashPath
    \/ Return

Spec == Init /\ [][Next]_vars

(* --------------------- scanning the same tree twice ------------------- *)

\* The table indices of the entries do not decrease along the names: every
\* tree is this one up to the names of its paths.
SortedTrees(n) ==
    {[i \in 1..n |-> EntryTable[ix[i]]] :
        ix \in {f \in [1..n -> DOMAIN EntryTable] :
                  \A i \in 1..n, k \in 1..n : i < k => f[i] <= f[k]}}

InitOrder ==
    /\ rootIsDir \in BOOLEAN
    /\ \E n \in 0..OrderFiles :
          /\ tree \in SortedTrees(n)
          /\ listing = Identity(n)
          /\ ~rootIsDir => n = 0
    /\ md5 \in DigestFunctions
    /\ pc \in {"main", "walk"}
    /\ Fresh

\* find_duplicates is called again on the unchanged tree; os.walk may list
\* the entries in any order.
Rerun ==
    /\ pc = "done"
    /\ run = 1
    /\ run' = 2
    /\ previous' = result
    /\ listing' \in Orders(Len(listing))
    /\ pc' = "walk"
    /\ cursor' = 1
    /\ hashes_by_size' = <<>>
    /\ b' = 1
    /\ j' = 1
    /\ duplicates' = <<>>
    /\ result' = <<>>
    /\ hash_calls' = <<>>
    /\ warnings' = <<>>
    /\ UNCHANGED <<rootIsDir, tree, md5>>

NextOrder ==
    \/ Next
    \/ Rerun

SpecOrder == InitOrder /\ [][NextOrder]_vars

(* ------------------------------ vocabulary ---------------------------- *)

Returned == pc = "done"

Members(g) == {g.paths[i] : i \in DOMAIN g.paths}

Keys(d) == {d[i].key : i \in DOMAIN d}

\* An ordered dict as the mapping it is (dict equality ignores key order).
AsMap(d) == [h \in Keys(d) |-> d[CHOOSE i \in DOMAIN d : d[i].key = h].paths]

\* A mapping digest -> list of paths with each list taken as a set.
AsSets(d) == {<<d[i].key, Members(d[i])>> : i \in DOMAIN d}

GroupedPaths == UNION {Members(result[i]) : i \in DOMAIN result}

\* The size recorded for a path by the first pass.
RecordedSize(p) ==
    hashes_by_size[CHOOSE k \in DOMAIN hashes_by_size :
                       p \in Members(hashes_by_size[k])].key

FailedPaths == {warnings[i].path : i \in DOMAIN warnings}

\* The actions compute what find_duplicates computes.
StepsAreTheFunction == Returned => result = find_duplicates(walk)


(* ------------------------------- claims ------------------------------- *)

\* C1: whatever the tree and whichever entries fail, every group of the
\* returned mapping has at least 2 paths.
C1_GroupsHaveTwoPaths ==
    Returned => \A i \in DOMAIN result : Len(result[i].paths) >= 2

\* A run with a failing entry that drops a one-path digest group and
\* returns another group.
C1_Witness ==
    /\ Returned
    /\ result # <<>>
    /\ warnings # <<>>
    /\ \E i \in DOMAIN duplicates : Len(duplicates[i].paths) = 1

C3_EmptyNeverWithNonEmpty ==
    Returned =>
        \A i \in DOMAIN result :
            ~ \E p \in Members(result[i]), q \in Members(result[i]) :
                  getsize(p) = 0 /\ getsize(q) > 0

NoAccessFailure ==
    \A p \in Paths : isfile(p) => ~getsize_raises(p) /\ ~open_raises(p)

RegularFiles == SelectSeq(walk, LAMBDA p : isfile(p))

ContentDigest(p) == md5[tree[p].content]

SizeSeparating ==
    \A p \in Paths, q \in Paths :
        (isfile(p) /\ isfile(q) /\ getsize(p) # getsize(q))
            => ContentDigest(p) # ContentDigest(q)

\* Every regular file hashed, grouped by digest in listing order, the
\* groups of at least 2 paths kept: no size pre-filter.
Reference ==
    LET group(h) == SelectSeq(RegularFiles, LAMBDA p : ContentDigest(p) = h)
    IN  [h \in {d \in Digests : Len(group(d)) >= 2} |-> group(h)]

\* C4: with no access failure and a digest function under which files of
\* different sizes never share a digest, the returned mapping is the
\* reference result computed without the size pre-filter.
C4_PrefilterLosesNothing ==
    (Returned /\ NoAccessFailure /\ SizeSeparating)
        => AsMap(result) = Reference

\* Two equal files, a third of the same size and other content that was
\* hashed and is in no group, and a file of another size that was not hashed.
C4_Witness ==
    /\ Returned /\ NoAccessFailure /\ SizeSeparating
    /\ result # <<>>
    /\ \E i \in DOMAIN hash_calls : hash_calls[i].path \notin GroupedPaths
    /\ \E k \in DOMAIN hashes_by_size : Len(hashes_by_size[k].paths) = 1

\* C5: for every returned group, hash_file was called on each member during
\* the run and every such call gave the group's key.
C5_MembersHashToKey ==
    Returned =>
        \A i \in DOMAIN result :
            \A p \in Members(result[i]) :
                /\ \E c \in DOMAIN hash_calls : hash_calls[c].path = p
                /\ \A c \in DOMAIN hash_calls :
                       hash_calls[c].path = p
                           => hash_calls[c].digest = result[i].key

\* A run returning a group of three paths beside a hashed path of another
\* digest.
C5_Witness ==
    /\ Returned
    /\ \E i \in DOMAIN result : Len(result[i].paths) >= 3
    /\ \E c \in DOMAIN hash_calls :
           hash_calls[c].digest \notin (Keys(result) \cup {"OSError"})

\* C6 (as claimed): find_duplicates never returns an ordinary mapping for a
\* root that is no directory.
C6_FindDuplicatesRejectsRoot == ~rootIsDir => pc # "done"

\* C6 (amended): main reports a root that is no directory and returns
\* without calling find_duplicates, so nothing is traversed and no mapping
\* is produced; find_duplicates itself, called on such a root, traverses
\* nothing and returns the empty mapping.
C6_MainRejectsRoot ==
    /\ [][(pc = "main" /\ ~rootIsDir) => pc' = "exit"]_vars
    /\ [](pc = "exit" =>
             /\ ~rootIsDir
             /\ cursor = 1 /\ hashes_by_size = <<>> /\ hash_calls = <<>>
             /\ duplicates = <<>> /\ result = <<>>)
    /\ []((Returned /\ ~rootIsDir) =>
             /\ result = <<>>
             /\ cursor = 1 /\ hash_calls = <<>> /\ warnings = <<>>)

\* main has returned after reporting the root.
C6_Witness == pc = "exit" /\ ~rootIsDir

\* Readable files of different content have different digests.
CollisionFree ==
    \A p \in Paths, q \in Paths :
        (/\ isfile(p) /\ ~open_raises(p)
         /\ isfile(q) /\ ~open_raises(q)
         /\ tree[p].content # tree[q].content)
            => ContentDigest(p) # ContentDigest(q)

\* C7: a failing getsize or hash_file does not abort the run: a mapping is
\* returned, no failing path is in a group, and (the digest function being
\* collision-free) the mapping is the one returned for the same listing
\* without the failing paths.
C7_FailuresOnlyRemoveThePath ==
    (Returned /\ CollisionFree) =>
        /\ FailedPaths \cap GroupedPaths = {}
        /\ AsMap(result) =
               AsMap(find_duplicates(
                   SelectSeq(walk, LAMBDA p : p \notin FailedPaths)))

\* A run in which getsize failed for one path and hash_file for another,
\* and a group was returned all the same.
C7_Witness ==
    /\ Returned /\ CollisionFree
    /\ \E i \in DOMAIN warnings : warnings[i].what = "access"
    /\ \E i \in DOMAIN warnings : warnings[i].what = "hash"
    /\ result # <<>>

\* C8: a second call on the unchanged tree, with the entries listed in any
\* order, returns the same digest -> set-of-paths groups as the first.
C8_SameGroupsInAnyOrder ==
    (run = 2 /\ Returned) => AsSets(result) = AsSets(previous)

\* The second call listed the entries in another order and returned the
\* same groups with their paths in another order.
C8_Witness ==
    /\ run = 2 /\ Returned
    /\ listing # Identity(Len(listing))
    /\ result # <<>>
    /\ result # previous

\* C9: hash_file is called only once the first pass is over, only on paths
\* whose size bucket holds at least 2 paths, and at most once per path.
C9_HashOnlySharedSizes ==
    /\ hash_calls # <<>> => (pc \in {"hash", "done"} /\ cursor > Len(walk))
    /\ \A c \in DOMAIN hash_calls :
           \E k \in DOMAIN hashes_by_size :
               /\ hash_calls[c].path \in Members(hashes_by_size[k])
               /\ Len(hashes_by_size[k].paths) >= 2
    /\ \A c \in DOMAIN hash_calls, e \in DOMAIN hash_calls :
           c # e => hash_calls[c].path # hash_calls[e].path

\* A finished run that hashed some paths and left a path of unique size
\* unhashed.
C9_Witness ==
    /\ Returned
    /\ hash_calls # <<>>
    /\ \E k \in DOMAIN hashes_by_size :
           /\ Len(hashes_by_size[k].paths) = 1
           /\ \A c \in DOMAIN hash_calls :
                  hash_calls[c].path \notin Members(hashes_by_size[k])

\* C10: no path occurs twice in the returned mapping, within a group or in
\* two groups, so main's count of extra copies is the number of grouped
\* paths less the number of groups.
C10_GroupsDisjoint ==
    Returned =>
        /\ \A i \in DOMAIN result, k \in DOMAIN result :
               \A m \in DOMAIN result[i].paths, n \in DOMAIN result[k].paths :
                   result[i].paths[m] = result[k].paths[n] => (i = k /\ m = n)
        /\ total_duplicates_found(result) =
               Cardinality(GroupedPaths) - Len(result)

\* Two groups were returned, with two extra copies in all.
C10_Witness ==
    /\ Returned
    /\ Len(result) = 2
    /\ total_duplicates_found(result) = 2

====
